---- MODULE Spec2Model ----
(***************************************************************************)
(* uxf_aws_download.py: export of Unity Experiment Framework data from a   *)
(* DynamoDB store into delimited files.  The program is one linear batch   *)
(* job; its state is the control position, the response of the last scan,  *)
(* the items collected so far, the data frame in hand, the files on disk   *)
(* and what was printed.  The store and a previous run's files are inputs. *)
(***************************************************************************)
EXTENDS Integers, Sequences, FiniteSets

VARIABLES options, start, store, fs, pc, ctx, idx, response, items, df,
          calls, out, written, error

vars == <<options, start, store, fs, pc, ctx, idx, response, items, df,
          calls, out, written, error>>

(***************************************************************************)
(* Bounds of the inputs.                                                   *)
(***************************************************************************)
MaxLen == 2
MaxRecs == 2
MaxPages == 3
MaxPageItems == 2
MaxTimeStep == 1

(***************************************************************************)
(* Program constants.                                                      *)
(***************************************************************************)
PREFIX == "UXFData"
TABLES == <<"ParticipantDetails", "TrialResults", "Settings", "SessionLog",
            "SummaryStatistics">>
EXPERIMENT == "Exp1"
AllKinds == {TABLES[i] : i \in 1..Len(TABLES)} \cup {"Trackers"}

(***************************************************************************)
(* Values of item attributes: a scalar or an ordered sequence.  A cell of  *)
(* a data frame holds such a value; after explode every cell is a scalar,  *)
(* kept as an integer, and NaN is the missing value.                       *)
(***************************************************************************)
Scalar(x) == [seq |-> FALSE, val |-> <<x>>]
List(s) == [seq |-> TRUE, val |-> s]
NaN == 0

RECURSIVE SumSeq(_)
SumSeq(s) == IF s = <<>> THEN 0 ELSE Head(s) + SumSeq(Tail(s))

RECURSIVE Flatten(_)
Flatten(ss) == IF ss = <<>> THEN <<>> ELSE Head(ss) \o Flatten(Tail(ss))

IsUnique(s) == \A i, j \in 1..Len(s) : s[i] = s[j] => i = j

(***************************************************************************)
(* get_table_name, get_output_file_name.  The formatted strings are kept   *)
(* as the tuple of their parts; strftime pads every field to a fixed       *)
(* width, so the tuple of field values stands for the stamp.               *)
(***************************************************************************)
get_table_name(experiment, table, prefix) == <<prefix, experiment, table>>

strftime(t) == <<t.Y, t.mo, t.d, t.H, t.mo>>

get_output_file_name(experiment, table, t) ==
    [experiment |-> experiment, table |-> table, stamp |-> strftime(t),
     ext |-> "csv"]

(***************************************************************************)
(* pandas, as far as lines 46-48 and 107-108 use it.  A frame is its       *)
(* ordered columns and its rows, a row mapping each column to a cell.      *)
(***************************************************************************)
Range(s) == {s[i] : i \in 1..Len(s)}

ColumnOrder == <<"ppid_session_dataname", "trial_num", "a", "b">>

EmptyFrame == [columns |-> <<>>, rows |-> <<>>]

\* pd.DataFrame.from_records(items): no items give a frame without columns.
from_records(its) ==
    IF its = <<>> THEN EmptyFrame
    ELSE [columns |-> SelectSeq(ColumnOrder, LAMBDA c : c \in DOMAIN its[1]),
          rows |-> its]

\* df.shape[0]
shape0(frame) == Len(frame.rows)

\* df.set_index(keys): KeyError when a key is no column of the frame.
set_index(frame, keys) ==
    IF \E i \in 1..Len(keys) : keys[i] \notin Range(frame.columns)
    THEN [exc |-> "KeyError"]
    ELSE [exc |-> "none",
          names |-> keys,
          index |-> [r \in 1..Len(frame.rows) |->
                       [i \in 1..Len(keys) |-> frame.rows[r][keys[i]].val[1]]],
          columns |-> SelectSeq(frame.columns, LAMBDA c : c \notin Range(keys)),
          rows |-> frame.rows]

\* pd.Series.explode: a list-like cell gives one entry per element under the
\* cell's own index label, an empty list-like one NaN entry, a scalar itself.
explode(ser) ==
    LET count(v) == IF v.seq /\ Len(v.val) > 0 THEN Len(v.val) ELSE 1
        elems(v) == IF v.seq /\ Len(v.val) = 0 THEN <<NaN>> ELSE v.val
        n == Len(ser.index)
    IN [index |-> Flatten([r \in 1..n |->
                     [i \in 1..count(ser.values[r]) |-> ser.index[r]]]),
        values |-> Flatten([r \in 1..n |-> elems(ser.values[r])])]

RECURSIVE Dedupe(_)
Dedupe(s) ==
    IF s = <<>> THEN <<>>
    ELSE <<Head(s)>> \o SelectSeq(Dedupe(Tail(s)), LAMBDA x : x # Head(s))

CountIn(s, x) == Cardinality({i \in 1..Len(s) : s[i] = x})

MaxOf(S) == CHOOSE m \in S : \A n \in S : n <= m

\* union_indexes of the exploded columns' indexes (the DataFrame constructor
\* that DataFrame.apply ends in).  Equal indexes are kept as they are.  Unequal
\* plain indexes (one key) unite to their distinct labels.  Unequal
\* MultiIndexes (two keys) unite to the distinct labels or to the labels with
\* their largest multiplicity, depending on the pandas release.
union_indexes(cols, names) ==
    LET C == DOMAIN cols
        first == cols[CHOOSE c \in C : TRUE].index
        joined == Flatten([i \in 1..Len(ColumnOrder) |->
                   IF ColumnOrder[i] \in C THEN cols[ColumnOrder[i]].index
                   ELSE <<>>])
        labels == Dedupe(joined)
        withDups == Flatten([p \in 1..Len(labels) |->
                       [i \in 1..MaxOf({CountIn(cols[c].index, labels[p]) : c \in C})
                          |-> labels[p]]])
    IN IF \A c \in C : cols[c].index = first THEN {first}
       ELSE IF Len(names) = 1 THEN {labels}
       ELSE {labels, withDups}

\* Series.reindex(target) inside the DataFrame constructor: an index equal to
\* the target is kept; a different index with duplicate labels cannot be
\* reindexed (ValueError); a different unique index is looked up by label.
reindex(ser, target) ==
    IF ser.index = target THEN [exc |-> "none", values |-> ser.values]
    ELSE IF ~IsUnique(ser.index) THEN [exc |-> "ValueError"]
    ELSE [exc |-> "none",
          values |-> [p \in 1..Len(target) |->
              IF \E q \in 1..Len(ser.index) : ser.index[q] = target[p]
              THEN ser.values[CHOOSE q \in 1..Len(ser.index) :
                                  ser.index[q] = target[p]]
              ELSE NaN]]

\* The columns of a set_index result, each exploded on its own.
exploded_columns(ix) ==
    [c \in Range(ix.columns) |->
       explode([index |-> ix.index,
                values |-> [r \in 1..Len(ix.rows) |-> ix.rows[r][c]]])]

\* frame.apply(pd.Series.explode) on the result of set_index, for one of the
\* indexes the constructor may unite to.
apply_explode(ix, target) ==
    LET C == Range(ix.columns)
        cols == exploded_columns(ix)
        re == [c \in C |-> reindex(cols[c], target)]
    IN IF \E c \in C : re[c].exc # "none" THEN [exc |-> "ValueError"]
       ELSE [exc |-> "none", names |-> ix.names, index |-> target,
             columns |-> ix.columns,
             rows |-> [p \in 1..Len(target) |-> [c \in C |-> re[c].values[p]]]]

\* frame.reset_index(): the index levels become the leading columns.
reset_index(fr) ==
    [columns |-> fr.names \o fr.columns,
     rows |-> [p \in 1..Len(fr.index) |->
                [c \in Range(fr.names) \cup Range(fr.columns) |->
                   IF c \in Range(fr.names)
                   THEN fr.index[p][CHOOSE i \in 1..Len(fr.names) : fr.names[i] = c]
                   ELSE fr.rows[p][c]]]]

\* res.set_index(keys).apply(pd.Series.explode).reset_index(): the outcomes.
unpack(frame, keys) ==
    LET ix == set_index(frame, keys)
    IN IF ix.exc # "none" THEN {[exc |-> ix.exc, df |-> EmptyFrame]}
       ELSE {LET fr == apply_explode(ix, target)
             IN IF fr.exc # "none" THEN [exc |-> fr.exc, df |-> EmptyFrame]
                ELSE [exc |-> "none", df |-> reset_index(fr)]
             : target \in union_indexes(exploded_columns(ix), keys)}

(***************************************************************************)
(* The inputs.  The store maps a table name to the chain of pages its scan *)
(* answers with; a name the store does not hold is a table not found.      *)
(* Page k of N carries the continuation token of page k unless k = N.      *)
(***************************************************************************)
StoreName(kind) == <<"UXFData", "Exp1", kind>>

Missing == [exists |-> FALSE, pages |-> <<>>]

Table(pages) == [exists |-> TRUE, pages |-> pages]

\* Element i of field f (1 for a, 2 for b) of the record with key k.
Elem(k, f, i) == 100 * k + 10 * f + i

\* Shape 0 is a scalar, shape n + 1 a sequence of n elements.
Value(shape, k, f) ==
    IF shape = 0 THEN Scalar(Elem(k, f, 1))
    ELSE List([i \in 1..(shape - 1) |-> Elem(k, f, i)])

\* The k-th record of a table: one row identifier per record; a Trackers
\* record belongs to one session and carries its trial number as a scalar.
Record(kind, k, sa, sb) ==
    IF kind = "Trackers"
    THEN [ppid_session_dataname |-> Scalar(1), trial_num |-> Scalar(k),
          a |-> Value(sa, k, 1), b |-> Value(sb, k, 2)]
    ELSE [ppid_session_dataname |-> Scalar(k),
          a |-> Value(sa, k, 1), b |-> Value(sb, k, 2)]

Shapes == 0..(MaxLen + 1)

EmptyTable == Table(<< <<>> >>)

\* Two pages, one record each, every field a sequence: 2 + 1 observations.
GoodTable(kind) ==
    Table(<< <<Record(kind, 1, 3, 3)>>, <<Record(kind, 2, 2, 2)>> >>)

\* One page of records whose two fields have the shapes f[k] names.
ShapedTable(kind, f) ==
    Table(<< [k \in 1..Len(f) |-> Record(kind, k, f[k][1], f[k][2])] >>)

\* Pages of cnt[p] well-formed records each.
PagedTable(kind, cnt) ==
    Table([p \in 1..Len(cnt) |->
             [j \in 1..cnt[p] |->
                Record(kind, SumSeq([q \in 1..(p - 1) |-> cnt[q]]) + j, 3, 3)]])

\* Local start times of a run, and the start time of the run before it.
PrevTime == [Y |-> 2020, mo |-> 1, d |-> 1, H |-> 0, M |-> 0]

Times ==
    {[Y |-> PrevTime.Y + o[1], mo |-> PrevTime.mo + o[2], d |-> PrevTime.d + o[3],
      H |-> PrevTime.H + o[4], M |-> PrevTime.M + o[5]]
       : o \in [1..5 -> 0..MaxTimeStep]}

AllOptions == [p : BOOLEAN, tracker : BOOLEAN]

\* The runs that reach each of the three places tables are scanned from, with
\* the table kind whose content is varied there.
Contexts ==
    {[kind |-> "ParticipantDetails", options |-> [p |-> TRUE, tracker |-> FALSE]],
     [kind |-> "ParticipantDetails", options |-> [p |-> FALSE, tracker |-> FALSE]],
     [kind |-> "Trackers", options |-> [p |-> FALSE, tracker |-> TRUE]]}

(***************************************************************************)
(* Files.  A file is its name and its text: a header row and one line per  *)
(* row.  to_csv opens its target for writing, which creates the file or    *)
(* replaces what it held.                                                  *)
(***************************************************************************)
Csv(frame) ==
    [header |-> frame.columns,
     lines |-> [r \in 1..Len(frame.rows) |->
                  [i \in 1..Len(frame.columns) |-> frame.rows[r][frame.columns[i]]]]]

to_csv(files, frame, file_name) ==
    {f \in files : f.name # file_name}
        \cup {[name |-> file_name, content |-> Csv(frame)]}

\* What a default run started at PrevTime left behind on well-formed tables.
PrevFiles ==
    {[name |-> get_output_file_name(EXPERIMENT, TABLES[i], PrevTime),
      content |-> Csv((CHOOSE o \in unpack(from_records(Flatten(GoodTable(TABLES[i]).pages)),
                                          <<"ppid_session_dataname">>) : TRUE).df)]
       : i \in 1..Len(TABLES)}

(***************************************************************************)
(* Initial states.  Every run starts at the top of the main program; the   *)
(* inputs vary one dimension at a time: which tables exist and hold data,  *)
(* the shapes of the records of one table, the paging of one table, and    *)
(* the start time relative to an earlier run whose files are on disk.      *)
(***************************************************************************)
InitProgram ==
    /\ pc = "main"
    /\ ctx = "main"
    /\ idx = 0
    /\ response = [Items |-> <<>>]
    /\ items = <<>>
    /\ df = EmptyFrame
    /\ calls = <<>>
    /\ out = <<>>
    /\ written = {}
    /\ error = "none"

InitTables ==
    /\ options \in AllOptions
    /\ start = PrevTime
    /\ fs = {}
    /\ \E sel \in [AllKinds -> {"missing", "empty", "good"}] :
          store = [n \in {StoreName(k) : k \in AllKinds} |->
                     IF sel[n[3]] = "missing" THEN Missing
                     ELSE IF sel[n[3]] = "empty" THEN EmptyTable
                     ELSE GoodTable(n[3])]

InitShapes ==
    /\ start = PrevTime
    /\ fs = {}
    /\ \E c \in Contexts : \E n \in 1..MaxRecs :
       \E f \in [1..n -> Shapes \X Shapes] :
          /\ options = c.options
          /\ store = [t \in {StoreName(k) : k \in AllKinds} |->
                        IF t[3] = c.kind THEN ShapedTable(c.kind, f)
                        ELSE IF c.options.tracker THEN Missing
                        ELSE GoodTable(t[3])]

InitPages ==
    /\ start = PrevTime
    /\ fs = {}
    /\ \E c \in Contexts : \E n \in 1..MaxPages :
       \E cnt \in [1..n -> 0..MaxPageItems] :
          /\ options = c.options
          /\ store = [t \in {StoreName(k) : k \in AllKinds} |->
                        IF t[3] = c.kind THEN PagedTable(c.kind, cnt)
                        ELSE Missing]

InitTimes ==
    /\ options \in AllOptions
    /\ start \in Times
    /\ fs = PrevFiles
    /\ store = [n \in {StoreName(k) : k \in AllKinds} |-> GoodTable(n[3])]

Init == InitProgram /\ (InitTables \/ InitShapes \/ InitPages \/ InitTimes)

(***************************************************************************)
(* The program.                                                            *)
(***************************************************************************)
\* The table kind being processed and the names lines 71-72, 95-96, 167 and
\* 169 build for it.
CurKind ==
    IF ctx = "uxf" THEN TABLES[idx]
    ELSE IF ctx = "tracker" THEN "Trackers" ELSE "ParticipantDetails"

tname == get_table_name(EXPERIMENT, CurKind, PREFIX)

fname == get_output_file_name(EXPERIMENT, CurKind, start)

\* table.scan(**request) of the store.
TableExists(request) ==
    request.TableName \in DOMAIN store /\ store[request.TableName].exists

scan(request) ==
    LET pages == store[request.TableName].pages
        k == IF "ExclusiveStartKey" \in DOMAIN request
             THEN request.ExclusiveStartKey.after + 1 ELSE 1
    IN IF k < Len(pages)
       THEN [Items |-> pages[k], LastEvaluatedKey |-> [after |-> k]]
       ELSE [Items |-> pages[k]]

\* Variant of line 44: the page replaces the items instead of extending them.
extend_overwrites(its, more) == more

\* items.extend(response['Items'])
extend(its, more) == its \o more

\* Variant of line 153: the default branch is entered whatever -p says.
MainDownload_unguarded ==
    /\ pc = "main"
    /\ out' = Append(out, [msg |-> "retrieving", experiment |-> EXPERIMENT])
    /\ ctx' = "uxf"
    /\ idx' = 1
    /\ pc' = "uxf_loop"
    /\ UNCHANGED <<options, start, store, fs, response, items, df, calls,
                   written, error>>

\* Lines 153-155 and 71-72: the default branch enters download_uxf_tables.
MainDownload ==
    /\ pc = "main" /\ ~options.p
    /\ out' = Append(out, [msg |-> "retrieving", experiment |-> EXPERIMENT])
    /\ ctx' = "uxf"
    /\ idx' = 1
    /\ pc' = "uxf_loop"
    /\ UNCHANGED <<options, start, store, fs, response, items, df, calls,
                   written, error>>

\* Lines 164-167: the participant-only branch calls scan_table_to_df.
MainParticipant ==
    /\ pc = "main" /\ options.p
    /\ out' = Append(out, [msg |-> "participant_details", experiment |-> EXPERIMENT])
    /\ ctx' = "participant"
    /\ pc' = "scan_first"
    /\ UNCHANGED <<options, start, store, fs, idx, response, items, df, calls,
                   written, error>>

\* Lines 73-75: the next table kind of the list.
UxfIter ==
    /\ pc = "uxf_loop" /\ idx <= Len(TABLES)
    /\ pc' = "scan_first"
    /\ UNCHANGED <<options, start, store, fs, ctx, idx, response, items, df,
                   calls, out, written, error>>

\* Line 73 exhausted: download_uxf_tables returns to line 157.
UxfReturn ==
    /\ pc = "uxf_loop" /\ idx > Len(TABLES)
    /\ pc' = "main_tracker"
    /\ UNCHANGED <<options, start, store, fs, ctx, idx, response, items, df,
                   calls, out, written, error>>

\* Variant of line 159: download_tracker_data is entered whatever -t says.
TrackerStart_unguarded ==
    /\ pc = "main_tracker"
    /\ ctx' = "tracker"
    /\ pc' = "scan_first"
    /\ UNCHANGED <<options, start, store, fs, idx, response, items, df, calls,
                   out, written, error>>

\* Lines 159-160 and 95-99: the tracker flag enters download_tracker_data.
TrackerStart ==
    /\ pc = "main_tracker" /\ options.tracker
    /\ ctx' = "tracker"
    /\ pc' = "scan_first"
    /\ UNCHANGED <<options, start, store, fs, idx, response, items, df, calls,
                   out, written, error>>

\* Line 162.
MainComplete ==
    /\ \/ pc = "main_tracker" /\ ~options.tracker
       \/ pc = "main_complete"
    /\ out' = Append(out, [msg |-> "complete"])
    /\ pc' = "done"
    /\ UNCHANGED <<options, start, store, fs, ctx, idx, response, items, df,
                   calls, written, error>>

\* Lines 37-39 and 99-101: the first scan of a table that exists.
ScanFirst ==
    /\ pc = "scan_first"
    /\ TableExists([TableName |-> tname])
    /\ calls' = Append(calls, [TableName |-> tname])
    /\ response' = scan([TableName |-> tname])
    /\ items' = response'.Items
    /\ pc' = "scan_loop"
    /\ UNCHANGED <<options, start, store, fs, ctx, idx, df, out, written, error>>

\* Variant of lines 74-79: no handler around the call of line 75.
ScanNotFoundUxf_uncaught ==
    /\ pc = "scan_first" /\ ctx = "uxf"
    /\ ~TableExists([TableName |-> tname])
    /\ calls' = Append(calls, [TableName |-> tname])
    /\ error' = "ResourceNotFoundException"
    /\ pc' = "crashed"
    /\ UNCHANGED <<options, start, store, fs, ctx, idx, response, items, df, out,
                   written>>

\* Line 38 raises ResourceNotFoundException; lines 78-79 catch it.
ScanNotFoundUxf ==
    /\ pc = "scan_first" /\ ctx = "uxf"
    /\ ~TableExists([TableName |-> tname])
    /\ calls' = Append(calls, [TableName |-> tname])
    /\ out' = Append(out, [msg |-> "not_found", file |-> fname, table |-> tname])
    /\ idx' = idx + 1
    /\ pc' = "uxf_loop"
    /\ UNCHANGED <<options, start, store, fs, ctx, response, items, df, written,
                   error>>

\* Line 100 raises ResourceNotFoundException; lines 111-112 catch it.
ScanNotFoundTracker ==
    /\ pc = "scan_first" /\ ctx = "tracker"
    /\ ~TableExists([TableName |-> tname])
    /\ calls' = Append(calls, [TableName |-> tname])
    /\ out' = Append(out, [msg |-> "not_found", file |-> fname, table |-> tname])
    /\ pc' = "main_complete"
    /\ UNCHANGED <<options, start, store, fs, ctx, idx, response, items, df,
                   written, error>>

\* Line 38 raises ResourceNotFoundException inside the call of line 167,
\* which no handler encloses: the program ends with the exception.
ScanNotFoundParticipant ==
    /\ pc = "scan_first" /\ ctx = "participant"
    /\ ~TableExists([TableName |-> tname])
    /\ calls' = Append(calls, [TableName |-> tname])
    /\ error' = "ResourceNotFoundException"
    /\ pc' = "crashed"
    /\ UNCHANGED <<options, start, store, fs, ctx, idx, response, items, df, out,
                   written>>

\* Lines 42-44 and 103-105: one more turn of the loop.
ScanNext ==
    /\ pc = "scan_loop"
    /\ "LastEvaluatedKey" \in DOMAIN response
    /\ LET request == [TableName |-> tname,
                       ExclusiveStartKey |-> response.LastEvaluatedKey]
       IN /\ calls' = Append(calls, request)
          /\ response' = scan(request)
    /\ items' = extend(items, response'.Items)
    /\ UNCHANGED <<options, start, store, fs, pc, ctx, idx, df, out, written,
                   error>>

\* Lines 46-50: the loop has ended; scan_table_to_df builds and returns the
\* frame, to line 76 or to line 168.  An exception of the unpacking has no
\* handler (lines 78 and 167) and ends the program.
ScanToDf ==
    /\ pc = "scan_loop" /\ ctx \in {"uxf", "participant"}
    /\ "LastEvaluatedKey" \notin DOMAIN response
    /\ LET res == from_records(items)
       IN IF shape0(res) > 0
          THEN \E o \in unpack(res, <<"ppid_session_dataname">>) :
                 /\ df' = o.df
                 /\ error' = o.exc
                 /\ pc' = IF o.exc # "none" THEN "crashed"
                          ELSE IF ctx = "uxf" THEN "save" ELSE "print_df"
          ELSE /\ df' = res
               /\ error' = error
               /\ pc' = IF ctx = "uxf" THEN "save" ELSE "print_df"
    /\ UNCHANGED <<options, start, store, fs, ctx, idx, response, items, calls,
                   out, written>>

\* Lines 107-108: the loop has ended; download_tracker_data unpacks whatever
\* it collected.  Line 111 handles no exception of the unpacking.
TrackerUnpack ==
    /\ pc = "scan_loop" /\ ctx = "tracker"
    /\ "LastEvaluatedKey" \notin DOMAIN response
    /\ \E o \in unpack(from_records(items), <<"ppid_session_dataname", "trial_num">>) :
         /\ df' = o.df
         /\ error' = o.exc
         /\ pc' = IF o.exc # "none" THEN "crashed" ELSE "save"
    /\ UNCHANGED <<options, start, store, fs, ctx, idx, response, items, calls,
                   out, written>>

\* Line 168.
PrintDf ==
    /\ pc = "print_df"
    /\ out' = Append(out, [msg |-> "df", df |-> df])
    /\ pc' = "save"
    /\ UNCHANGED <<options, start, store, fs, ctx, idx, response, items, df,
                   calls, written, error>>

\* Variant of line 55: the frame is written whether or not it has rows.
save_dataframe_unguarded ==
    /\ pc = "save"
    /\ fs' = to_csv(fs, df, fname)
    /\ written' = written \cup {fname}
    /\ out' = Append(out, [msg |-> "rows", file |-> fname, n |-> shape0(df)])
    /\ idx' = IF ctx = "uxf" THEN idx + 1 ELSE idx
    /\ pc' = IF ctx = "uxf" THEN "uxf_loop"
             ELSE IF ctx = "tracker" THEN "main_complete" ELSE "done"
    /\ UNCHANGED <<options, start, store, ctx, response, items, df, calls, error>>

\* Lines 53-59, called from lines 76, 109 and 169, and the return from there.
save_dataframe ==
    /\ pc = "save"
    /\ IF shape0(df) > 0
       THEN /\ fs' = to_csv(fs, df, fname)
            /\ written' = written \cup {fname}
            /\ out' = Append(out, [msg |-> "rows", file |-> fname, n |-> shape0(df)])
       ELSE /\ out' = Append(out, [msg |-> "no_data", file |-> fname])
            /\ UNCHANGED <<fs, written>>
    /\ idx' = IF ctx = "uxf" THEN idx + 1 ELSE idx
    /\ pc' = IF ctx = "uxf" THEN "uxf_loop"
             ELSE IF ctx = "tracker" THEN "main_complete" ELSE "done"
    /\ UNCHANGED <<options, start, store, ctx, response, items, df, calls, error>>

Next ==
    \/ MainDownload
    \/ MainParticipant
    \/ UxfIter
    \/ UxfReturn
    \/ TrackerStart
    \/ MainComplete
    \/ ScanFirst
    \/ ScanNotFoundUxf
    \/ ScanNotFoundTracker
    \/ ScanNotFoundParticipant
    \/ ScanNext
    \/ ScanToDf
    \/ TrackerUnpack
    \/ PrintDf
    \/ save_dataframe

Spec == Init /\ [][Next]_vars

(***************************************************************************)
(* Vocabulary of the properties.                                           *)
(***************************************************************************)
Exists(kind) == store[StoreName(kind)].exists

PagesOf(kind) == store[StoreName(kind)].pages

ItemsOf(kind) == Flatten(PagesOf(kind))

CallsOn(kind) == SelectSeq(calls, LAMBDA c : c.TableName = StoreName(kind))

FileOf(kind) == get_output_file_name(EXPERIMENT, kind, start)

Said(m) == \E i \in 1..Len(out) : out[i] = m

\* The outcome of a table kind was printed: skipped, no data, or its rows.
Reported(kind) ==
    \E i \in 1..Len(out) :
       /\ out[i].msg \in {"not_found", "no_data", "rows"}
       /\ out[i].file = FileOf(kind)

NotFoundMsg(kind) ==
    [msg |-> "not_found", file |-> FileOf(kind), table |-> StoreName(kind)]

\* The scan loop of the current table has ended and its items were handed to
\* the unpacking: the frame is in hand, or the unpacking raised.
AfterUnpack ==
    \/ pc \in {"save", "print_df"}
    \/ pc = "crashed" /\ error \in {"KeyError", "ValueError"}

\* The table kind at position i of the default list has been dealt with.
Processed(i) ==
    /\ ~options.p
    /\ ctx \in {"uxf", "tracker"}
    /\ ctx = "uxf" => i < idx

(***************************************************************************)
(* C1.  A table answering with N pages is scanned with exactly N calls:    *)
(* the first passes no continuation token, call k > 1 passes the token the *)
(* store returned to call k - 1, and no call follows the page without a    *)
(* token; the records collected number the sum of the pages' item counts.  *)
(***************************************************************************)
C1_Pagination ==
    \A kind \in AllKinds :
      Exists(kind) =>
        LET cs == CallsOn(kind)
            N == Len(PagesOf(kind))
        IN /\ Len(cs) <= N
           /\ Len(cs) >= 1 => "ExclusiveStartKey" \notin DOMAIN cs[1]
           /\ \A k \in 2..Len(cs) :
                /\ "ExclusiveStartKey" \in DOMAIN cs[k]
                /\ "LastEvaluatedKey" \in DOMAIN scan(cs[k - 1])
                /\ cs[k].ExclusiveStartKey = scan(cs[k - 1]).LastEvaluatedKey
           /\ (pc # "scan_loop" \/ kind # CurKind) => Len(cs) \in {0, N}
           /\ (AfterUnpack /\ kind = CurKind) =>
                /\ Len(cs) = N
                /\ Len(items) = SumSeq([p \in 1..N |-> Len(PagesOf(kind)[p])])

\* A table of three pages holding 2, 0 and 1 items has been read to its end.
C1_Witness ==
    /\ AfterUnpack
    /\ Len(PagesOf(CurKind)) = 3
    /\ Len(PagesOf(CurKind)[1]) = 2
    /\ Len(PagesOf(CurKind)[2]) = 0
    /\ Len(PagesOf(CurKind)[3]) = 1
    /\ Len(CallsOn(CurKind)) = 3

(***************************************************************************)
(* C2.  In download_uxf_tables and download_tracker_data a table that is   *)
(* not found is logged as a skip and never ends the run: the run stops     *)
(* only at its normal end or at an exception raised for a table that       *)
(* exists; a first scan that finds no table has the handler of its call   *)
(* site to go to; every table kind dealt with was either skipped with the  *)
(* message or scanned to its last page and, if it holds data, exported;    *)
(* at the normal end every kind of the list has been dealt with.           *)
(***************************************************************************)
C2_NotFoundSkipped ==
    /\ ~options.p => error # "ResourceNotFoundException"
    /\ \A i \in 1..Len(TABLES) :
         Processed(i) =>
           IF ~Exists(TABLES[i])
           THEN /\ Said(NotFoundMsg(TABLES[i]))
                /\ FileOf(TABLES[i]) \notin written
           ELSE /\ Len(CallsOn(TABLES[i])) = Len(PagesOf(TABLES[i]))
                /\ ItemsOf(TABLES[i]) # <<>> => FileOf(TABLES[i]) \in written
                /\ ItemsOf(TABLES[i]) = <<>> =>
                     Said([msg |-> "no_data", file |-> FileOf(TABLES[i])])
    /\ (~options.p /\ pc = "crashed") => Exists(CurKind)
    /\ (~options.p /\ pc = "scan_first" /\ ~Exists(CurKind)) =>
         ENABLED (ScanNotFoundUxf \/ ScanNotFoundTracker)
    /\ (~options.p /\ pc = "done") => \A i \in 1..Len(TABLES) : Processed(i)
    /\ (~options.p /\ options.tracker /\ pc = "done" /\ ~Exists("Trackers")) =>
         /\ Said(NotFoundMsg("Trackers"))
         /\ Said([msg |-> "complete"])

\* A run ended normally although its first table kind and the Trackers table
\* were missing, and exported a later kind.
C2_Witness ==
    /\ ~options.p /\ options.tracker /\ pc = "done"
    /\ ~Exists("ParticipantDetails")
    /\ ~Exists("Trackers")
    /\ Exists("SessionLog")
    /\ FileOf("SessionLog") \in written
    /\ Said(NotFoundMsg("ParticipantDetails"))

(***************************************************************************)
(* C3.  At every call site of the scanner a table not found is caught and  *)
(* treated as a skip; it never ends the run as a fatal error.              *)
(***************************************************************************)
C3_NotFoundNeverFatal ==
    ~(pc = "crashed" /\ error = "ResourceNotFoundException")

(***************************************************************************)
(* C4.  Unpacking records whose sequence-valued fields all have the same   *)
(* length n >= 1 gives, per record and in order, n rows: row i holds the   *)
(* group key values, element i of every sequence field and the unchanged   *)
(* value of every scalar field.                                            *)
(***************************************************************************)
SeqFields(r) == {c \in DOMAIN r : r[c].seq}

UniformRecord(r) ==
    /\ SeqFields(r) # {}
    /\ \A c, d \in SeqFields(r) : Len(r[c].val) = Len(r[d].val)
    /\ \A c \in SeqFields(r) : Len(r[c].val) >= 1

ExpectedRows(its) ==
    Flatten([k \in 1..Len(its) |->
               LET r == its[k]
                   n == Len(r[CHOOSE c \in SeqFields(r) : TRUE].val)
               IN [i \in 1..n |->
                     [c \in DOMAIN r |-> IF r[c].seq THEN r[c].val[i] ELSE r[c].val[1]]]])

C4_UnpackRows ==
    (AfterUnpack /\ items # <<>> /\ \A k \in 1..Len(items) : UniformRecord(items[k])) =>
       /\ error = "none"
       /\ df.rows = ExpectedRows(items)

(***************************************************************************)
(* C5.  For both group-key sets, unpacking an empty record sequence gives  *)
(* the empty collection of rows and raises nothing.                        *)
(***************************************************************************)
C5_EmptyUnpack ==
    (AfterUnpack /\ items = <<>>) => (error = "none" /\ shape0(df) = 0)

(***************************************************************************)
(* C6.  With -p every scan of the run is a scan of the table               *)
(* {prefix}.{experiment}.ParticipantDetails, also when -t is set; nothing  *)
(* but its file is written; at the end of the run its unpacked rows have   *)
(* been printed and handed to the exporter.                                *)
(***************************************************************************)
C6_ParticipantOnly ==
    options.p =>
      /\ \A i \in 1..Len(calls) :
           calls[i].TableName = <<"UXFData", EXPERIMENT, "ParticipantDetails">>
      /\ pc \notin {"main", "scan_first"} => Len(calls) >= 1
      /\ written \subseteq {FileOf("ParticipantDetails")}
      /\ ~Said([msg |-> "complete"])
      /\ pc = "done" =>
           /\ Len(calls) = Len(PagesOf("ParticipantDetails"))
           /\ Said([msg |-> "df", df |-> df])
           /\ shape0(df) > 0 =>
                /\ [name |-> FileOf("ParticipantDetails"), content |-> Csv(df)] \in fs
                /\ Len(df.rows) >= Len(ItemsOf("ParticipantDetails"))
           /\ shape0(df) = 0 => ItemsOf("ParticipantDetails") = <<>>

\* A run with -p and -t ended, having exported rows, while every other table
\* exists.
C6_Witness ==
    /\ options.p /\ options.tracker /\ pc = "done"
    /\ shape0(df) > 0
    /\ \A kind \in AllKinds : Exists(kind)

(***************************************************************************)
(* C7.  Without the tracker flag the Trackers table is never scanned and   *)
(* no Trackers file is written, whatever the table holds; with the flag    *)
(* its first scan comes after every kind of the default list was scanned   *)
(* and its outcome reported.                                               *)
(***************************************************************************)
C7_TrackerOnRequest ==
    /\ ~options.tracker =>
         /\ CallsOn("Trackers") = <<>>
         /\ FileOf("Trackers") \notin written
         /\ \A f \in fs : f.name.table # "Trackers"
    /\ CallsOn("Trackers") # <<>> =>
         /\ options.tracker /\ ~options.p
         /\ \A i \in 1..Len(TABLES) :
              /\ Processed(i)
              /\ \E j, k \in 1..Len(calls) :
                   /\ j < k
                   /\ calls[j].TableName = StoreName(TABLES[i])
                   /\ calls[k].TableName = StoreName("Trackers")
                   /\ \A l \in 1..k : calls[l].TableName = StoreName("Trackers") => l = k
              /\ Reported(TABLES[i])

\* A default run ended while the Trackers table exists and holds data.
C7_Witness ==
    /\ ~options.tracker /\ ~options.p /\ pc = "done"
    /\ Exists("Trackers")
    /\ ItemsOf("Trackers") # <<>>

(***************************************************************************)
(* C8.  Two runs on the same experiment whose local start times differ in  *)
(* year, month, day, hour or minute name their files differently, so a run *)
(* never writes into a file of a run started in a different minute.        *)
(***************************************************************************)
C8_FreshFiles ==
    start # PrevTime => \A f \in PrevFiles : f.name \notin written

(***************************************************************************)
(* C9.  save_dataframe on an empty frame leaves every file as it is and    *)
(* reports "no data"; on a frame with rows it leaves one file under the    *)
(* given name, holding the header and one line per row, touches no other   *)
(* file, and reports the number of rows.  It raises in neither case.       *)
(***************************************************************************)
C9_Export ==
    [][pc = "save" =>
         /\ error' = "none" /\ pc' # "crashed"
         /\ IF shape0(df) = 0
            THEN /\ fs' = fs
                 /\ written' = written
                 /\ out' = Append(out, [msg |-> "no_data", file |-> fname])
            ELSE /\ Cardinality({f \in fs' : f.name = fname}) = 1
                 /\ \A f \in fs' : f.name = fname =>
                      /\ f.content.header = df.columns
                      /\ Len(f.content.lines) = Len(df.rows)
                      /\ \A r \in 1..Len(df.rows) : \A i \in 1..Len(df.columns) :
                           f.content.lines[r][i] = df.rows[r][df.columns[i]]
                 /\ {f \in fs' : f.name # fname} = {f \in fs : f.name # fname}
                 /\ written' = written \cup {fname}
                 /\ out' = Append(out, [msg |-> "rows", file |-> fname,
                                        n |-> Len(df.rows)])]_vars

\* One run exported an empty table and a table with rows.
C9_Witness ==
    /\ \E i \in 1..Len(out) : out[i].msg = "no_data"
    /\ \E i \in 1..Len(out) : out[i].msg = "rows"
    /\ fs # {}

(***************************************************************************)
(* C10.  A record whose sequence-valued fields differ in length ends the   *)
(* processing of its table in an error, and no file is written for it.     *)
(***************************************************************************)
MismatchedRecord(r) ==
    \E c, d \in SeqFields(r) : Len(r[c].val) # Len(r[d].val)

C10_ShapeMismatch ==
    (AfterUnpack /\ \E k \in 1..Len(items) : MismatchedRecord(items[k])) =>
       /\ pc = "crashed"
       /\ error = "ValueError"

====
